---- MODULE Spec2Model ----
(***************************************************************************)
(* Model of examples/llmbot.py: MsgBotAhsm, the message pacing and         *)
(* fragmentation controller, with the transport's receive callback         *)
(* (on_receive) running in the transport's reader thread and the state     *)
(* machine's handlers running to completion on the event loop.             *)
(*                                                                         *)
(* Strings are TLA+ strings.  A reply text is held as the list of chunks   *)
(* (words and runs of whitespace) that textwrap splits it into; a line is  *)
(* the concatenation of its chunks.  A deque is a sequence whose index 1   *)
(* is the deque's left end: appendleft prepends, pop takes the last.       *)
(***************************************************************************)
EXTENDS Integers, Sequences, FiniteSets, TLC

VARIABLES
    state,           \* the Hsm's current state
    tm_evt,          \* the periodic TimeEvent: armed or disarmed
    msht_intf,       \* the SerialInterface opened at the entry of _running
    interface,       \* MsgBotAhsm.interface, set by on_receive
    inbound_queue,   \* deque of <<sender, msg, pkt_id>>
    outbound_queue,  \* deque of <<dest_id, msg_payload, pkt_id>>
    llm_context,     \* dict sender -> context (None when absent)
    mq,              \* the Ahsm's event queue; its head is dispatched next
    rx_pc,           \* the reader thread's position inside accept_inbound_msg
    packets,         \* history: number of packets delivered for this node
    ignored,         \* history: number of packets delivered for another node
    expirations,     \* history: number of expirations of the periodic timer
    ticks,           \* history: number of TEN_SEC events handled
    log,             \* history: one record per inbound message processed
    sent,            \* history: one record per sendText call
    rcvd_text_msg_count,  \* testbot.py: the global counter of text messages
    rcvd_command_count,   \* testbot.py: the global counter of commands
    rx_count,        \* testbot.py, history: number of packets received
    rx_msg,          \* testbot.py, history: the packet received last
    tx_count,        \* testbot.py, history: number of sendText calls
    tx_last          \* testbot.py, history: the sendText call made last

llmbot_vars == <<state, tm_evt, msht_intf, interface, inbound_queue, outbound_queue,
                 llm_context, mq, rx_pc, packets, ignored, expirations, ticks, log, sent>>

testbot_vars == <<rcvd_text_msg_count, rcvd_command_count, rx_count, rx_msg,
                  tx_count, tx_last>>

vars == <<llmbot_vars, testbot_vars>>

-----------------------------------------------------------------------------
(* Bounds of the model *)

MaxPackets == 2
MaxIgnored == 1
MaxTicks == 2
MaxFragPackets == 2
MaxLivePackets == 2
MaxPendingTicks == 1
MaxTestPackets == 3

-----------------------------------------------------------------------------
(* Values *)

None == "None"
my_node_num == "node0"
Nodes == {"node0", "node1"}
Senders == {"!aa", "!bb"}
Prompts == {"hi"}

\* meshtastic's Constants.DATA_PAYLOAD_LEN, and post_outbound_msg's margin
DATA_PAYLOAD_LEN == 233
SAFETY_MARGIN == 8

-----------------------------------------------------------------------------
(* Deques *)

\* append in place of appendleft
append_right(q, x) == Append(q, x)

appendleft(q, x) == <<x>> \o q
pop_value(q) == q[Len(q)]
\* the right end read and left in place
pop_rest_peek(q) == q

pop_rest(q) == SubSeq(q, 1, Len(q) - 1)

(* farc event queue: pop_msg takes the head; post_fifo joins the tail,     *)
(* post_lifo jumps to the head                                            *)
\* the event lost instead of posted
post_dropped(q, e) == q

post_fifo(q, e) == Append(q, e)
post_lifo(q, e) == <<e>> \o q

-----------------------------------------------------------------------------
(* optionalHeader and textwrap.wrap *)

\* the header numbering the fragments from 0, as enumerate does
optionalHeader_from_zero(n, d) ==
    IF d > 1 THEN "[" \o ToString(n - 1) \o "/" \o ToString(d) \o "] " ELSE ""

optionalHeader(n, d) ==
    IF d > 1 THEN "[" \o ToString(n) \o "/" \o ToString(d) \o "] " ELSE ""

MAX_HEADER_SIZE == Len(optionalHeader(99, 99))
payld_sz == DATA_PAYLOAD_LEN - MAX_HEADER_SIZE - SAFETY_MARGIN

IsWhitespace(chunk) == chunk \in {" ", "  "}

\* "".join(chunks), halving the list so that long texts stay shallow
RECURSIVE Join(_)
Join(chunks) ==
    IF Len(chunks) = 0 THEN ""
    ELSE IF Len(chunks) = 1 THEN chunks[1]
    ELSE LET half == Len(chunks) \div 2
         IN  Join(SubSeq(chunks, 1, half)) \o Join(SubSeq(chunks, half + 1, Len(chunks)))

\* the inner loop of textwrap's _wrap_chunks: how many leading chunks fit
RECURSIVE TakeFitting(_, _, _)
TakeFitting(chunks, cur_len, width) ==
    IF chunks # <<>> /\ cur_len + Len(Head(chunks)) <= width
    THEN 1 + TakeFitting(Tail(chunks), cur_len + Len(Head(chunks)), width)
    ELSE 0

\* textwrap's _wrap_chunks with break_long_words=False, drop_whitespace=True
RECURSIVE wrap_chunks(_, _, _, _)
wrap_chunks(chunks, lines, width, subsequent_indent) ==
    IF chunks = <<>> THEN lines
    ELSE
      LET indent == IF lines # <<>> THEN subsequent_indent ELSE ""
          w == width - Len(indent)
          cs == IF IsWhitespace(Head(chunks)) /\ lines # <<>>
                THEN Tail(chunks) ELSE chunks
          k == TakeFitting(cs, 0, w)
          taken == SubSeq(cs, 1, k)
          rest == SubSeq(cs, k + 1, Len(cs))
          long == rest # <<>> /\ Len(Head(rest)) > w /\ taken = <<>>
          cur == IF long THEN <<Head(rest)>> ELSE taken
          rest1 == IF long THEN Tail(rest) ELSE rest
          cur1 == IF cur # <<>> /\ IsWhitespace(cur[Len(cur)])
                  THEN SubSeq(cur, 1, Len(cur) - 1) ELSE cur
      IN  wrap_chunks(rest1,
                      IF cur1 # <<>> THEN Append(lines, indent \o Join(cur1))
                                     ELSE lines,
                      width, subsequent_indent)

wrap(msg, width, subsequent_indent) == wrap_chunks(msg, <<>>, width, subsequent_indent)

-----------------------------------------------------------------------------
(* Texts the generator answers with *)

RECURSIVE Words(_, _)
Words(word, n) ==
    IF n = 0 THEN <<>>
    ELSE IF n = 1 THEN <<word>>
    ELSE <<word, " ">> \o Words(word, n - 1)

EmptyReply == <<>>
ShortReply == <<"Hello", " ", "there.">>
TwoFragReply == Words("abcdefghi.", 25)
ThreeFragReply == Words("klmnopqrs.", 45)
Replies == {EmptyReply, ShortReply, TwoFragReply, ThreeFragReply}

\* "LLM exception.  Brain fail.  Beep, boop."
FallbackReply == <<"LLM", " ", "exception.", "  ", "Brain", " ", "fail.", "  ",
                   "Beep,", " ", "boop.">>

\* texts that fill the wrap width, split a hundred times, or hold a word no
\* line can take
RECURSIVE Repeat(_, _)
Repeat(s, n) == IF n = 0 THEN "" ELSE s \o Repeat(s, n - 1)

Word216 == Repeat("abcdefgh", 27)
Word230 == Word216 \o "ijklmnopqrstuv"
Word240 == Word230 \o "wxyz012345"

ExactFitReply == <<Word216 \o "i">>
FullLinesReply == Words(Word216, 3)
HundredFragReply == [i \in 1..199 |-> IF i % 2 = 1 THEN Word216 ELSE " "]
LongWordReply == <<Word240>>
LongWordInsideReply == <<"Hello", " ", Word230, " ", "there.">>
FragReplies == {ShortReply, TwoFragReply, ExactFitReply, FullLinesReply,
                HundredFragReply, LongWordReply, LongWordInsideReply}

\* what the n-th llm_client.generate call does: raise, or return a response.
\* The context is opaque to the controller; every response carries a new one.
Raise == [raised |-> TRUE]
Responses(n) ==
    [raised : {FALSE}, done : {TRUE}, response : Replies, context : {"context" \o ToString(n)}]
    \cup
    [raised : {FALSE}, done : {FALSE}, response : {ShortReply}, context : {"context" \o ToString(n)}]
Outcomes(n) == {Raise} \cup Responses(n)

\* the generator answering with the long texts, every response complete
FragOutcomes(n) ==
    [raised : {FALSE}, done : {TRUE}, response : FragReplies, context : {"context" \o ToString(n)}]

-----------------------------------------------------------------------------
(* testbot.py: the packets it is given.  `keys` holds which of the         *)
(* optional keys the packet dict has; a field whose key is absent is       *)
(* never read.                                                             *)

OptionalKeys == {"hopStart", "hopLimit", "rxSnr", "rxRssi"}

TestTexts == {"test", "Testing", "a TEST, counts", "counts", "COUNTS please",
              "hello", "tes t", ""}

TextPackets ==
    [portnum : {"TEXT_MESSAGE_APP"}, text : TestTexts, from : {"!aa"},
     keys : {{}, {"hopStart", "hopLimit"}, {"hopLimit", "rxSnr", "rxRssi"},
             OptionalKeys},
     hopStart : {3}, hopLimit : {3, 1}, rxSnr : {6}, rxRssi : {-90}]

OtherPackets ==
    [portnum : {"POSITION_APP", "TELEMETRY_APP"}, text : {""}, from : {"!aa"},
     keys : {{}, OptionalKeys},
     hopStart : {3}, hopLimit : {3}, rxSnr : {6}, rxRssi : {-90}]

TestPackets == TextPackets \cup OtherPackets

NoPacket == [portnum |-> "", text |-> "", from |-> "", keys |-> {},
             hopStart |-> 0, hopLimit |-> 0, rxSnr |-> 0, rxRssi |-> 0]
NoCall == [text |-> "", destinationId |-> ""]

-----------------------------------------------------------------------------
Init ==
    /\ state = "_listening"
    /\ tm_evt = "armed"
    /\ msht_intf = "open"
    /\ interface = None
    /\ inbound_queue = <<>>
    /\ outbound_queue = <<>>
    /\ llm_context = [s \in Senders |-> None]
    /\ mq = <<>>
    /\ rx_pc = "idle"
    /\ packets = 0
    /\ ignored = 0
    /\ expirations = 0
    /\ ticks = 0
    /\ log = <<>>
    /\ sent = <<>>
    /\ rcvd_text_msg_count = 0
    /\ rcvd_command_count = 0
    /\ rx_count = 0
    /\ rx_msg = NoPacket
    /\ tx_count = 0
    /\ tx_last = NoCall

-----------------------------------------------------------------------------
(* generate_reply *)

\* the lookup dropping the entry it finds
context_forgotten(store, sender) == None

\* the lookup of the sender's prior context
context_for_this_sender(store, sender) == store[sender]

\* the entry stored whatever the response's done flag says
generate_reply_context_any(store, sender, r) ==
    IF ~r.raised THEN [store EXCEPT ![sender] = r.context] ELSE store

\* the sender's entry after the generate call ended with outcome r
generate_reply_context(store, sender, r) ==
    IF ~r.raised /\ r.done THEN [store EXCEPT ![sender] = r.context] ELSE store

\* the failure swallowed without the fallback text
generate_reply_unhandled(r) == IF r.raised THEN EmptyReply ELSE r.response

\* the text generate_reply returns
generate_reply(r) == IF r.raised THEN FallbackReply ELSE r.response

(* post_outbound_msg *)

\* "~" stands for the one-character continuation marker U+2026
msg_frags(msg) == wrap(msg, payld_sz, "~")

\* the payloads in the order the loop builds them
msg_payloads(msg) ==
    LET frags == msg_frags(msg)
    IN  [n \in 1..Len(frags) |-> optionalHeader(n, Len(frags)) \o frags[n]]

\* msg_payloads and the text itself, tabulated for the texts of the model
payloads_of[msg \in Replies \cup {FallbackReply} \cup FragReplies] == msg_payloads(msg)
text_of[msg \in Replies \cup {FallbackReply} \cup FragReplies] == Join(msg)

\* the loop with append in place of appendleft
RECURSIVE enqueue_frags_append(_, _, _, _)
enqueue_frags_append(q, dest_id, payloads, pkt_id) ==
    IF payloads = <<>> THEN q
    ELSE enqueue_frags_append(Append(q, <<dest_id, Head(payloads), pkt_id>>),
                              dest_id, Tail(payloads), pkt_id)

\* the fragments addressed to whoever wrote last instead of to dest_id
RECURSIVE enqueue_frags_last_sender(_, _, _, _)
enqueue_frags_last_sender(q, dest_id, payloads, pkt_id) ==
    IF payloads = <<>> THEN q
    ELSE enqueue_frags_last_sender(
             appendleft(q, <<IF inbound_queue # <<>> THEN inbound_queue[1][1]
                                                     ELSE dest_id,
                             Head(payloads), pkt_id>>),
             dest_id, Tail(payloads), pkt_id)

\* the loop of appendleft calls: each payload in turn goes to the left end, so
\* the loop leaves them, last first, to the left of what the queue held
enqueue_frags(q, dest_id, payloads, pkt_id) ==
    [i \in 1..Len(payloads) |->
        <<dest_id, payloads[Len(payloads) + 1 - i], pkt_id>>] \o q

\* SEND_NOW posted in the loop as well as after it
post_send_now_twice(q) == post_lifo(post_lifo(q, "SEND_NOW"), "SEND_NOW")

\* the event queue after post_outbound_msg: SEND_NOW is posted every time
post_send_now(q) == post_lifo(q, "SEND_NOW")

\* popleft in place of pop: the newest fragment goes out
send_newest_outbound_msg(by) ==
    IF Len(outbound_queue) > 0
    THEN LET item == Head(outbound_queue)
         IN  /\ outbound_queue' = Tail(outbound_queue)
             /\ sent' = Append(sent, [dest_id |-> item[1], msg_payload |-> item[2],
                                      replyId |-> item[3], via |-> interface,
                                      by |-> by, processed |-> Len(log),
                                      raised |-> FALSE])
    ELSE UNCHANGED <<outbound_queue, sent>>

(* send_any_outbound_msg, called for the event `by` *)
send_any_outbound_msg(by) ==
    IF Len(outbound_queue) > 0
    THEN LET item == pop_value(outbound_queue)
         IN  /\ outbound_queue' = pop_rest(outbound_queue)
             /\ sent' = Append(sent, [dest_id |-> item[1], msg_payload |-> item[2],
                                      replyId |-> item[3], via |-> interface,
                                      by |-> by, processed |-> Len(log),
                                      raised |-> FALSE])
    ELSE UNCHANGED <<outbound_queue, sent>>

-----------------------------------------------------------------------------
(* The reader thread: on_receive, then the two statements of               *)
(* accept_inbound_msg, between which the event loop may run.               *)

\* the check of the packet's addressee left out
addressed_anywhere(packet) == TRUE

\* whether on_receive goes on to accept the packet
addressed_here(packet) == packet.to = my_node_num

on_receive(packet) ==
    /\ msht_intf = "open"
    /\ rx_pc = "idle"
    /\ IF packet.to = my_node_num
       THEN packets < MaxPackets /\ packets' = packets + 1 /\ ignored' = ignored
       ELSE ignored < MaxIgnored /\ ignored' = ignored + 1 /\ packets' = packets
    /\ IF addressed_here(packet)
       THEN /\ interface' = "interface"
            /\ inbound_queue' = appendleft(inbound_queue,
                                   <<packet.fromId, packet.text, packet.id>>)
            /\ rx_pc' = "post_fifo"
       ELSE UNCHANGED <<interface, inbound_queue, rx_pc>>
    /\ UNCHANGED <<testbot_vars, state, tm_evt, msht_intf, outbound_queue, llm_context, mq, expirations, ticks,
                   log, sent>>

OnReceive ==
    \E to \in Nodes, fromId \in Senders, text \in Prompts :
        on_receive([to |-> to, fromId |-> fromId, text |-> text, id |-> packets + ignored + 1])

AcceptPost ==
    /\ rx_pc = "post_fifo"
    /\ mq' = post_fifo(mq, "MSG_RECEIVED")
    /\ rx_pc' = "idle"
    /\ UNCHANGED <<testbot_vars, state, tm_evt, msht_intf, interface, inbound_queue, outbound_queue, llm_context,
                   packets, ignored, expirations, ticks, log, sent>>

(* The periodic timer armed by post_every at the entry of _running *)
TimerExpire ==
    /\ tm_evt = "armed"
    /\ expirations < MaxTicks
    /\ expirations' = expirations + 1
    /\ mq' = post_fifo(mq, "TEN_SEC")
    /\ UNCHANGED <<testbot_vars, state, tm_evt, msht_intf, interface, inbound_queue, outbound_queue, llm_context,
                   rx_pc, packets, ignored, ticks, log, sent>>

-----------------------------------------------------------------------------
(* The event loop: one event dispatched to _listening, run to completion *)

\* process_inbound_msg, the generate call ending with outcome r
process_inbound_msg(r) ==
    LET item == pop_value(inbound_queue)
        sender == item[1]
        msg == item[2]
        pkt_id == item[3]
        full_reply == generate_reply(r)
        payloads == payloads_of[full_reply]
    IN  /\ inbound_queue' = pop_rest(inbound_queue)
        /\ llm_context' = generate_reply_context(llm_context, sender, r)
        /\ outbound_queue' = enqueue_frags(outbound_queue, sender, payloads, pkt_id)
        /\ mq' = post_send_now(Tail(mq))
        /\ log' = Append(log, [sender |-> sender, msg |-> msg, pkt_id |-> pkt_id,
                               prior |-> context_for_this_sender(llm_context, sender),
                               raised |-> r.raised,
                               done |-> IF r.raised THEN FALSE ELSE r.done,
                               context |-> IF r.raised THEN None ELSE r.context,
                               reply_len |-> Len(text_of[full_reply]),
                               frags |-> payloads,
                               queued |-> Len(outbound_queue)])

\* the states whose events reach the handler of _running: _running itself,
\* and _listening, which passes on what it does not handle
InRunning == {"_listening", "_running"}

\* _listening, MSG_RECEIVED (pop() of an empty deque would raise IndexError)
DispatchMsgReceived ==
    /\ state = "_listening"
    /\ mq # <<>> /\ Head(mq) = "MSG_RECEIVED"
    /\ inbound_queue # <<>>
    /\ \E r \in Outcomes(Len(log) + 1) : process_inbound_msg(r)
    /\ UNCHANGED <<testbot_vars, state, tm_evt, msht_intf, interface, rx_pc, packets, ignored, expirations, ticks, sent>>

\* _listening passes to _running, TEN_SEC
DispatchTenSec ==
    /\ state \in InRunning
    /\ mq # <<>> /\ Head(mq) = "TEN_SEC"
    /\ mq' = Tail(mq)
    /\ ticks' = ticks + 1
    /\ send_any_outbound_msg("TEN_SEC")
    /\ UNCHANGED <<testbot_vars, state, tm_evt, msht_intf, interface, inbound_queue, llm_context, rx_pc, packets, ignored,
                   expirations, log>>

\* _listening passes to _running, SEND_NOW
DispatchSendNow ==
    /\ state \in InRunning
    /\ mq # <<>> /\ Head(mq) = "SEND_NOW"
    /\ mq' = Tail(mq)
    /\ UNCHANGED <<testbot_vars, state, tm_evt, msht_intf, interface, inbound_queue, llm_context, rx_pc, packets, ignored,
                   expirations, ticks, log>>
    /\ send_any_outbound_msg("SEND_NOW")

Next ==
    \/ OnReceive
    \/ AcceptPost
    \/ TimerExpire
    \/ DispatchMsgReceived
    \/ DispatchTenSec
    \/ DispatchSendNow

Spec == Init /\ [][Next]_vars

-----------------------------------------------------------------------------
(* The same program with one correspondent and a generator that answers    *)
(* with the long texts: what post_outbound_msg makes of each of them       *)

OnReceiveFrag ==
    /\ packets < MaxFragPackets
    /\ \E text \in Prompts :
           on_receive([to |-> my_node_num, fromId |-> "!aa", text |-> text,
                       id |-> packets + ignored + 1])

DispatchMsgReceivedFrag ==
    /\ state = "_listening"
    /\ mq # <<>> /\ Head(mq) = "MSG_RECEIVED"
    /\ inbound_queue # <<>>
    /\ \E r \in FragOutcomes(Len(log) + 1) : process_inbound_msg(r)
    /\ UNCHANGED <<testbot_vars, state, tm_evt, msht_intf, interface, rx_pc, packets, ignored, expirations, ticks, sent>>

FragNext ==
    \/ OnReceiveFrag
    \/ AcceptPost
    \/ TimerExpire
    \/ DispatchMsgReceivedFrag
    \/ DispatchTenSec
    \/ DispatchSendNow

FragSpec == Init /\ [][FragNext]_vars

-----------------------------------------------------------------------------
(* testbot.py *)

\* str.lower() on the letters of the texts
LowerChar(c) ==
    LET upper == "ABCDEFGHIJKLMNOPQRSTUVWXYZ"
        lower == "abcdefghijklmnopqrstuvwxyz"
        at == {i \in 1..Len(upper) : SubSeq(upper, i, i) = c}
    IN  IF at = {} THEN c ELSE LET i == CHOOSE i \in at : TRUE IN SubSeq(lower, i, i)

RECURSIVE Lower(_)
Lower(str) ==
    IF Len(str) = 0 THEN ""
    ELSE LowerChar(SubSeq(str, 1, 1)) \o Lower(SubSeq(str, 2, Len(str)))

\* substr in str
Contains(substr, str) ==
    \E i \in 1..(Len(str) - Len(substr) + 1) :
        SubSeq(str, i, i + Len(substr) - 1) = substr

\* the check of the port number left out
is_text_message_any(msg) == TRUE

is_text_message(msg) == msg.portnum = "TEXT_MESSAGE_APP"

is_in_message(substr, msg) == Contains(substr, Lower(msg.text))

get_reply_to_test_command(msg) ==
    IF "hopStart" \notin msg.keys \/ "hopLimit" \notin msg.keys
    THEN "I heard you, but can't count the hops your message took."
    ELSE LET intermediate_node_count == msg.hopStart - msg.hopLimit
         IN  IF intermediate_node_count = 0
             THEN IF "rxSnr" \notin msg.keys \/ "rxRssi" \notin msg.keys
                  THEN "I heard you, but didn't get any RF stats to share."
                  ELSE "I heard you!\nSNR: " \o ToString(msg.rxSnr)
                           \o ", RSSI: " \o ToString(msg.rxRssi)
             ELSE "I heard you!\nthrough " \o ToString(intermediate_node_count)
                      \o " nodes."

get_diagnostic_counts_message(command_count, text_msg_count) ==
    ToString(command_count) \o " commands / " \o ToString(text_msg_count) \o " messages"

help_reply == "Put the word \"test\" in your message and see what happens."

\* the counters after the call and the reply it returns
process_received_message(msg) ==
    IF is_text_message(msg)
    THEN LET text_msg_count == rcvd_text_msg_count + 1
         IN  IF is_in_message("test", msg)
             THEN [text_msg_count |-> text_msg_count,
                   command_count |-> rcvd_command_count + 1,
                   reply |-> get_reply_to_test_command(msg)]
             ELSE IF is_in_message("counts", msg)
             THEN [text_msg_count |-> text_msg_count,
                   command_count |-> rcvd_command_count + 1,
                   reply |-> get_diagnostic_counts_message(rcvd_command_count + 1,
                                                           text_msg_count)]
             ELSE [text_msg_count |-> text_msg_count,
                   command_count |-> rcvd_command_count,
                   reply |-> help_reply]
    ELSE [text_msg_count |-> rcvd_text_msg_count,
          command_count |-> rcvd_command_count,
          reply |-> ""]

testbot_on_receive(packet) ==
    LET result == process_received_message(packet)
    IN  /\ rx_count' = rx_count + 1
        /\ rx_msg' = packet
        /\ rcvd_text_msg_count' = result.text_msg_count
        /\ rcvd_command_count' = result.command_count
        /\ IF result.reply # ""
           THEN /\ tx_count' = tx_count + 1
                /\ tx_last' = [text |-> result.reply, destinationId |-> packet.from]
           ELSE UNCHANGED <<tx_count, tx_last>>
        /\ UNCHANGED llmbot_vars

TestbotOnReceive ==
    /\ rx_count < MaxTestPackets
    /\ \E packet \in TestPackets : testbot_on_receive(packet)

TestNext == TestbotOnReceive

TestSpec == Init /\ [][TestNext]_vars

-----------------------------------------------------------------------------
(* The program with a transport whose sendText may raise.  Nothing catches *)
(* the exception (lines 101-103, 162-167): the fragment is popped already, *)
(* and the exception leaves send_any_outbound_msg and the handler of       *)
(* _running before it returns handled.  The Hsm's current state is then    *)
(* what the dispatch has made it: as it was before the event, or _running, *)
(* where _listening had passed the event on to.                            *)

send_any_outbound_msg_raises(by) ==
    LET item == pop_value(outbound_queue)
    IN  /\ outbound_queue' = pop_rest(outbound_queue)
        /\ sent' = Append(sent, [dest_id |-> item[1], msg_payload |-> item[2],
                                 replyId |-> item[3], via |-> interface,
                                 by |-> by, processed |-> Len(log),
                                 raised |-> TRUE])

DispatchTenSecRaises ==
    /\ state \in InRunning
    /\ mq # <<>> /\ Head(mq) = "TEN_SEC"
    /\ Len(outbound_queue) > 0
    /\ mq' = Tail(mq)
    /\ ticks' = ticks + 1
    /\ send_any_outbound_msg_raises("TEN_SEC")
    /\ state' \in {state, "_running"}
    /\ UNCHANGED <<testbot_vars, tm_evt, msht_intf, interface, inbound_queue, llm_context, rx_pc,
                   packets, ignored, expirations, log>>

DispatchSendNowRaises ==
    /\ state \in InRunning
    /\ mq # <<>> /\ Head(mq) = "SEND_NOW"
    /\ Len(outbound_queue) > 0
    /\ mq' = Tail(mq)
    /\ send_any_outbound_msg_raises("SEND_NOW")
    /\ state' \in {state, "_running"}
    /\ UNCHANGED <<testbot_vars, tm_evt, msht_intf, interface, inbound_queue, llm_context, rx_pc,
                   packets, ignored, expirations, ticks, log>>

\* _running passes MSG_RECEIVED on to top, where it is dropped
DispatchMsgReceivedUnhandled ==
    /\ state = "_running"
    /\ mq # <<>> /\ Head(mq) = "MSG_RECEIVED"
    /\ mq' = Tail(mq)
    /\ UNCHANGED <<testbot_vars, state, tm_evt, msht_intf, interface, inbound_queue, outbound_queue,
                   llm_context, rx_pc, packets, ignored, expirations, ticks, log, sent>>

FailNext ==
    \/ Next
    \/ DispatchTenSecRaises
    \/ DispatchSendNowRaises
    \/ DispatchMsgReceivedUnhandled

FailSpec == Init /\ [][FailNext]_vars

-----------------------------------------------------------------------------
(* The program running for ever: the periodic timer never stops, so its    *)
(* expirations and the ticks handled are not counted; the timer does not   *)
(* run more than MaxPendingTicks periods ahead of the event loop.          *)

Pending(signal) == Cardinality({i \in DOMAIN mq : mq[i] = signal})

OnReceiveLive ==
    /\ packets < MaxLivePackets
    /\ \E fromId \in Senders, text \in Prompts :
           on_receive([to |-> my_node_num, fromId |-> fromId, text |-> text,
                       id |-> packets + ignored + 1])

TimerExpireLive ==
    /\ tm_evt = "armed"
    /\ Pending("TEN_SEC") < MaxPendingTicks
    /\ mq' = post_fifo(mq, "TEN_SEC")
    /\ UNCHANGED <<testbot_vars, state, tm_evt, msht_intf, interface, inbound_queue, outbound_queue, llm_context,
                   rx_pc, packets, ignored, expirations, ticks, log, sent>>

DispatchTenSecLive ==
    /\ state \in InRunning
    /\ mq # <<>> /\ Head(mq) = "TEN_SEC"
    /\ mq' = Tail(mq)
    /\ send_any_outbound_msg("TEN_SEC")
    /\ UNCHANGED <<testbot_vars, state, tm_evt, msht_intf, interface, inbound_queue, llm_context, rx_pc, packets, ignored,
                   expirations, ticks, log>>

LiveNext ==
    \/ OnReceiveLive
    \/ AcceptPost
    \/ TimerExpireLive
    \/ DispatchMsgReceived
    \/ DispatchTenSecLive
    \/ DispatchSendNow

\* the event loop dispatches an event that stays pending, the timer goes on
\* expiring, and the reader thread finishes the call it is in; whether a
\* packet arrives is left open
LiveSpec ==
    /\ Init
    /\ [][LiveNext]_vars
    /\ WF_vars(AcceptPost)
    /\ WF_vars(TimerExpireLive)
    /\ WF_vars(DispatchMsgReceived)
    /\ WF_vars(DispatchTenSecLive)
    /\ WF_vars(DispatchSendNow)

-----------------------------------------------------------------------------
(* The program shut down: once the events pending have been handled the   *)
(* framework dispatches EXIT, which _listening passes on to _running,      *)
(* whose EXIT branch disarms the timer and closes the session.  A reader   *)
(* thread inside accept_inbound_msg still posts its event.                 *)

\* _listening passes to _running, EXIT
DispatchExit ==
    /\ state \in InRunning
    /\ tm_evt = "armed"
    /\ mq = <<>>
    /\ tm_evt' = "disarmed"
    /\ msht_intf' = "closed"
    /\ UNCHANGED <<testbot_vars, state, interface, inbound_queue, outbound_queue, llm_context, mq,
                   rx_pc, packets, ignored, expirations, ticks, log, sent>>

ExitNext ==
    \/ Next
    \/ DispatchExit

ExitSpec == Init /\ [][ExitNext]_vars

-----------------------------------------------------------------------------
(* Reading the history *)

Last(sq) == sq[Len(sq)]

\* the position in the log of the message with this packet id
LogPos(pkt_id) == CHOOSE k \in DOMAIN log : log[k].pkt_id = pkt_id

\* the 1-based position of a payload among the fragments of its reply
FragIdx(pkt_id, payload) ==
    CHOOSE n \in DOMAIN log[LogPos(pkt_id)].frags :
        log[LogPos(pkt_id)].frags[n] = payload

FragTotal(pkt_id) == Len(log[LogPos(pkt_id)].frags)

SentIdx(i) == FragIdx(sent[i].replyId, sent[i].msg_payload)

\* item a was enqueued no later than item b
NotYounger(a, b) ==
    \/ LogPos(a[3]) < LogPos(b[3])
    \/ /\ LogPos(a[3]) = LogPos(b[3])
       /\ FragIdx(a[3], a[2]) <= FragIdx(b[3], b[2])

SentBy(signal) == {i \in DOMAIN sent : sent[i].by = signal}

-----------------------------------------------------------------------------
\* C1: a TEN_SEC handled in Running transmits exactly one fragment, the oldest
\* of the outbound queue, when the queue is non-empty, and nothing when it is
\* empty; so the fragments transmitted by ticks never outnumber the ticks
\* handled.
C1_Pacing ==
    /\ [][ticks' = ticks + 1 =>
            IF outbound_queue # <<>>
            THEN /\ Len(outbound_queue') = Len(outbound_queue) - 1
                 /\ Len(sent') = Len(sent) + 1
                 /\ SubSeq(sent', 1, Len(sent)) = sent
                 /\ LET x == Last(sent')
                        item == <<x.dest_id, x.msg_payload, x.replyId>>
                    IN  /\ x.by = "TEN_SEC"
                        /\ \E n \in DOMAIN outbound_queue : outbound_queue[n] = item
                        /\ \A n \in DOMAIN outbound_queue :
                               NotYounger(item, outbound_queue[n])
                        /\ \A n \in DOMAIN outbound_queue' :
                               outbound_queue'[n] # item
            ELSE sent' = sent /\ outbound_queue' = outbound_queue]_vars
    /\ [](Cardinality(SentBy("TEN_SEC")) <= ticks)

\* one tick found the queue empty, the other sent one fragment of several
C1_Witness ==
    /\ ticks = 2
    /\ Cardinality(SentBy("TEN_SEC")) = 1
    /\ outbound_queue # <<>>

\* C2: a transmission triggered by SEND_NOW is always fragment 1 of a reply of at
\* least 2 fragments, and of the reply of the message just processed: never a
\* fragment 2..n, never a single-fragment reply, never an earlier reply's.
C2_SendNowOnlyFirstOfMulti ==
    \A i \in SentBy("SEND_NOW") :
        /\ SentIdx(i) = 1
        /\ FragTotal(sent[i].replyId) >= 2
        /\ LogPos(sent[i].replyId) = sent[i].processed

\* C3: when a tick is handled, fragment 1 of every reply of n >= 2 fragments
\* processed so far has already been transmitted, whatever the outbound queue
\* held; and fragments 2..n are transmitted by timer ticks only.
C3_FastPath ==
    /\ [][ticks' = ticks + 1 =>
            \A k \in DOMAIN log :
                Len(log[k].frags) >= 2 =>
                    \E i \in DOMAIN sent :
                        /\ sent[i].replyId = log[k].pkt_id
                        /\ sent[i].msg_payload = log[k].frags[1]]_vars
    /\ [](\A i \in DOMAIN sent : SentIdx(i) >= 2 => sent[i].by = "TEN_SEC")

\* C4: the fragments of one reply are transmitted in index order 1..n and
\* contiguously: a transmission either continues the reply of the previous
\* transmission with the next index, or starts a reply never transmitted
\* before at index 1; so no fragment goes out twice.
C4_FragmentsInOrder ==
    \A i \in DOMAIN sent :
        IF i > 1 /\ sent[i - 1].replyId = sent[i].replyId
        THEN SentIdx(i) = SentIdx(i - 1) + 1
        ELSE /\ SentIdx(i) = 1
             /\ \A j \in 1..(i - 1) : sent[j].replyId # sent[i].replyId

\* a reply enqueued behind the fragments of an earlier reply of several
\* fragments, and fragments of both transmitted
C4_Witness ==
    /\ Len(sent) >= 3
    /\ \E k \in DOMAIN log : log[k].queued > 0
    /\ \E i, j \in DOMAIN sent :
           /\ sent[i].replyId # sent[j].replyId
           /\ SentIdx(i) >= 2
           /\ sent[i].processed > LogPos(sent[i].replyId)

\* C5: both queues are FIFO end to end: packet ids are given in the order of
\* acceptance, the generator is called in that order, and no fragment of a
\* later message's reply is transmitted before a fragment of an earlier one's.
C5_Fifo ==
    /\ \A i, j \in DOMAIN log : i < j => log[i].pkt_id < log[j].pkt_id
    /\ \A i, j \in DOMAIN sent : i < j => sent[i].replyId <= sent[j].replyId

\* two messages were accepted and processed, the second while a fragment of
\* the first reply was still queued, and fragments of both replies went out
C5_Witness ==
    /\ Len(log) = 2
    /\ log[2].queued > 0
    /\ \A k \in DOMAIN log : \E i \in DOMAIN sent : sent[i].replyId = log[k].pkt_id

C7_ContextFrame ==
    [][/\ llm_context' # llm_context =>
            /\ Len(log') = Len(log) + 1
            /\ ~Last(log').raised
            /\ Last(log').done
            /\ llm_context' =
                   [llm_context EXCEPT ![Last(log').sender] = Last(log').context]
       /\ (Len(log') = Len(log) + 1 /\ (Last(log').raised \/ ~Last(log').done)) =>
            llm_context' = llm_context]_vars

\* a call failed for a sender whose context was stored, and it is still stored
C7_Witness ==
    \E k \in DOMAIN log :
        /\ log[k].raised
        /\ log[k].prior # None
        /\ llm_context[log[k].sender] = log[k].prior

C8_FallbackText == "LLM exception.  Brain fail.  Beep, boop."

\* C8: when the generate call for a message from sender S raises, exactly one
\* fragment is enqueued, for S, carrying the fallback string with no header
\* and the message's packet id; what is transmitted for that message is that
\* fragment, to S, at most once; the controller stays in _listening and can
\* dispatch whatever event heads its queue.
C8_GeneratorFailure ==
    /\ [][(Len(log') = Len(log) + 1 /\ Last(log').raised) =>
            /\ Len(outbound_queue') = Len(outbound_queue) + 1
            /\ \A n \in DOMAIN outbound_queue :
                   \E m \in DOMAIN outbound_queue' : outbound_queue'[m] = outbound_queue[n]
            /\ \E m \in DOMAIN outbound_queue' :
                   outbound_queue'[m] =
                       <<Last(log').sender, C8_FallbackText, Last(log').pkt_id>>
            /\ Last(log').frags = <<C8_FallbackText>>
            /\ state' = "_listening"]_vars
    /\ [](\A k \in DOMAIN log :
              log[k].raised =>
                  /\ \A i \in DOMAIN sent :
                         sent[i].replyId = log[k].pkt_id =>
                             /\ sent[i].dest_id = log[k].sender
                             /\ sent[i].msg_payload = C8_FallbackText
                  /\ Cardinality({i \in DOMAIN sent : sent[i].replyId = log[k].pkt_id}) <= 1)
    /\ []((\E k \in DOMAIN log : log[k].raised) =>
              /\ state = "_listening"
              /\ mq # <<>> =>
                     ENABLED (DispatchMsgReceived \/ DispatchTenSec \/ DispatchSendNow))

\* the first call failed, its fallback was transmitted to its sender, and a
\* later message was processed and a tick transmitted a fragment afterwards
C8_Witness ==
    /\ Len(log) = 2
    /\ log[1].raised
    /\ \E i \in DOMAIN sent :
           /\ sent[i].replyId = log[1].pkt_id
           /\ sent[i].dest_id = log[1].sender
           /\ sent[i].msg_payload = C8_FallbackText
    /\ \E i \in SentBy("TEN_SEC") : sent[i].processed = 2

\* C9: a packet whose 'to' is not the local node number changes nothing: the
\* queues, the Context Store, the pending events, the reader thread's position
\* (so no MSG_RECEIVED is posted for it), the generator calls and the
\* transmissions are all as before.
C9_OtherNodeIgnored ==
    [][ignored' = ignored + 1 =>
          UNCHANGED <<testbot_vars, state, tm_evt, msht_intf, interface, inbound_queue, outbound_queue, llm_context,
                      mq, rx_pc, packets, expirations, ticks, log, sent>>]_vars

\* a packet for another node arrived while both queues held something
C9_Witness ==
    /\ ignored = 1
    /\ inbound_queue # <<>>
    /\ outbound_queue # <<>>
    /\ mq # <<>>

\* C10: an empty reply enqueues no fragment, and processing it causes no
\* transmission: the SEND_NOW handled right after it transmits nothing, not
\* even a fragment that was already waiting in the outbound queue.
C10_EmptyReplySendsNothing ==
    \A k \in DOMAIN log :
        log[k].reply_len = 0 =>
            /\ log[k].frags = <<>>
            /\ ~\E i \in SentBy("SEND_NOW") : sent[i].processed = k

\* C11: every fragment, queued or transmitted, is addressed to the sender of the
\* inbound message whose reply it belongs to, carries that message's packet id
\* as its replyId and is one of that reply's fragments; so all fragments of one
\* reply share one destination and one replyId, whoever else has messages
\* queued.
C11_Addressing ==
    LET Tagged(dest_id, msg_payload, pkt_id) ==
            \E k \in DOMAIN log :
                /\ log[k].pkt_id = pkt_id
                /\ log[k].sender = dest_id
                /\ \E n \in DOMAIN log[k].frags : log[k].frags[n] = msg_payload
    IN  /\ \A i \in DOMAIN sent :
               Tagged(sent[i].dest_id, sent[i].msg_payload, sent[i].replyId)
        /\ \A n \in DOMAIN outbound_queue :
               Tagged(outbound_queue[n][1], outbound_queue[n][2], outbound_queue[n][3])
        /\ \A i, j \in DOMAIN sent :
               sent[i].replyId = sent[j].replyId => sent[i].dest_id = sent[j].dest_id

\* messages of two senders were queued together, the first was answered in
\* several fragments while the second still waited, and fragments went out to
\* both senders
C11_Witness ==
    /\ Len(log) = 2
    /\ log[1].sender # log[2].sender
    /\ Len(log[1].frags) >= 2
    /\ log[2].pkt_id = log[1].pkt_id + 1
    /\ \E i, j \in DOMAIN sent :
           /\ sent[i].dest_id = log[1].sender /\ sent[i].replyId = log[1].pkt_id
           /\ sent[j].dest_id = log[2].sender /\ sent[j].replyId = log[2].pkt_id
           /\ SentIdx(i) >= 2

\* C12: when a reply is split into n fragments, n of them are enqueued; for
\* n >= 2 the i-th enqueued, i = 1..n, begins with "[i/n] "; for n = 1 the
\* single fragment is the text with nothing put before it.
C12_Headers ==
    [][Len(log') = Len(log) + 1 =>
          LET n == Len(Last(log').frags)
              first == Len(outbound_queue') - Len(outbound_queue)
              Enqueued(i) == outbound_queue'[first - i + 1][2]
              Header(i) == "[" \o ToString(i) \o "/" \o ToString(n) \o "] "
          IN  /\ first = n
              /\ n >= 2 =>
                     \A i \in 1..n :
                         /\ Enqueued(i) = Last(log').frags[i]
                         /\ Len(Enqueued(i)) > Len(Header(i))
                         /\ SubSeq(Enqueued(i), 1, Len(Header(i))) = Header(i)
              /\ n = 1 =>
                     /\ Len(Enqueued(1)) = Last(log').reply_len
                     /\ SubSeq(Enqueued(1), 1, 1) # "["]_vars

\* replies of one, two, three and a hundred fragments were enqueued
C12_Witness ==
    /\ \E k \in DOMAIN log : Len(log[k].frags) = 1
    /\ \E k \in DOMAIN log : Len(log[k].frags) = 100
    /\ \E n \in DOMAIN outbound_queue :
           SubSeq(outbound_queue[n][2], 1, 10) = "[100/100] "

\* C13: every enqueued fragment, header and continuation marker included, is
\* at most DATA_PAYLOAD_LEN long, whatever the reply: also one holding a word
\* longer than the wrap width, and one of a hundred fragments.
C13_PayloadBound ==
    /\ \A n \in DOMAIN outbound_queue :
           Len(outbound_queue[n][2]) <= DATA_PAYLOAD_LEN
    /\ \A k \in DOMAIN log :
           \A n \in DOMAIN log[k].frags : Len(log[k].frags[n]) <= DATA_PAYLOAD_LEN

Accepted(pkt_id) == \E n \in DOMAIN inbound_queue : inbound_queue[n][3] = pkt_id

Processed(pkt_id) == \E k \in DOMAIN log : log[k].pkt_id = pkt_id

AllSent(pkt_id) ==
    \A k \in DOMAIN log :
        log[k].pkt_id = pkt_id =>
            \A n \in DOMAIN log[k].frags :
                \E i \in DOMAIN sent : /\ sent[i].replyId = pkt_id
                                       /\ sent[i].msg_payload = log[k].frags[n]

\* C14: with the timer expiring for ever and pending events dispatched, every
\* inbound message accepted is eventually processed, and every fragment
\* enqueued for it is eventually transmitted, whatever arrives meanwhile.
C14_EventualDelivery ==
    \A pkt_id \in 1..MaxLivePackets :
        /\ Accepted(pkt_id) ~> Processed(pkt_id)
        /\ Processed(pkt_id) ~> (Processed(pkt_id) /\ AllSent(pkt_id))

\* a reply of three fragments went out whole, the last two on ticks, and a
\* message that arrived meanwhile was processed and answered too
C14_Witness ==
    /\ Len(log) = 2
    /\ Len(log[1].frags) = 3
    /\ log[2].queued > 0
    /\ Len(log[2].frags) >= 1
    /\ AllSent(log[1].pkt_id) /\ AllSent(log[2].pkt_id)
    /\ Cardinality(SentBy("TEN_SEC")) >= 2

\* C15: when the transmission of a fragment fails, exactly that fragment, the
\* oldest, has left the outbound queue and the others stay in their order; it
\* is never attempted again; a tick that finds a fragment queued attempts one;
\* and the controller is in _listening afterwards as before.
C15_SendFailureBestEffort ==
    /\ [][(Len(sent') = Len(sent) + 1 /\ Last(sent').raised) =>
            /\ outbound_queue # <<>>
            /\ outbound_queue' = pop_rest(outbound_queue)
            /\ <<Last(sent').dest_id, Last(sent').msg_payload, Last(sent').replyId>>
                   = pop_value(outbound_queue)
            /\ state' = "_listening"]_vars
    /\ [][(ticks' = ticks + 1 /\ outbound_queue # <<>>) =>
            Len(sent') = Len(sent) + 1]_vars
    /\ [](\A i, j \in DOMAIN sent :
              (i < j /\ sent[i].raised) =>
                  <<sent[i].replyId, sent[i].msg_payload>>
                      # <<sent[j].replyId, sent[j].msg_payload>>)
    /\ [](state = "_listening")

\* C16: the step that exits Running disarms the timer, closes the session and
\* leaves both queues empty; from then on no tick is handled and nothing is
\* transmitted.
C16_Teardown ==
    /\ [][(tm_evt = "armed" /\ tm_evt' = "disarmed") =>
            /\ msht_intf' = "closed"
            /\ inbound_queue' = <<>>
            /\ outbound_queue' = <<>>]_vars
    /\ [][tm_evt = "disarmed" =>
            /\ tm_evt' = "disarmed"
            /\ ticks' = ticks
            /\ sent' = sent]_vars

\* C17: testbot answers a text message that has no "test" in it, whatever the
\* case, with the suggestion to put the word "test" in the message; one that
\* has "test" in it with SNR and RSSI when hopStart - hopLimit = 0 and with
\* the number of intermediate nodes otherwise.
C17_TestbotReplies ==
    (rx_count > 0 /\ rx_msg.portnum = "TEXT_MESSAGE_APP") =>
        /\ tx_count > 0
        /\ tx_last.text =
               IF ~Contains("test", Lower(rx_msg.text))
               THEN "Put the word \"test\" in your message and see what happens."
               ELSE IF rx_msg.keys = OptionalKeys /\ rx_msg.hopStart - rx_msg.hopLimit = 0
               THEN "I heard you!\nSNR: " \o ToString(rx_msg.rxSnr)
                        \o ", RSSI: " \o ToString(rx_msg.rxRssi)
               ELSE "I heard you!\nthrough "
                        \o ToString(rx_msg.hopStart - rx_msg.hopLimit) \o " nodes."

\* C18: however the reader thread's accept_inbound_msg interleaves with the
\* event loop, the MSG_RECEIVED events pending never outnumber the items of
\* the inbound queue, so the handler never pops from an empty queue; and every
\* message accepted is either still queued or was popped and given to the
\* generator, exactly once.
C18_NoEmptyPop ==
    /\ Pending("MSG_RECEIVED") <= Len(inbound_queue)
    /\ (mq # <<>> /\ Head(mq) = "MSG_RECEIVED") => inbound_queue # <<>>
    /\ \A i, j \in DOMAIN log : log[i].pkt_id = log[j].pkt_id => i = j
    /\ \A m, n \in DOMAIN inbound_queue :
           inbound_queue[m][3] = inbound_queue[n][3] => m = n
    /\ \A k \in DOMAIN log : \A n \in DOMAIN inbound_queue :
           log[k].pkt_id # inbound_queue[n][3]
    /\ Len(inbound_queue) + Len(log) = packets

\* the event loop has processed one message and has an event to dispatch
\* while the reader thread, inside accept_inbound_msg, has enqueued the next
\* message and not yet posted its event
C18_Witness ==
    /\ rx_pc = "post_fifo"
    /\ Len(log) = 1
    /\ Len(inbound_queue) = 1
    /\ Pending("MSG_RECEIVED") = 0
    /\ mq # <<>>

\* C19: in every reachable state the fragments transmitted so far are at most
\* the ticks handled plus the inbound messages processed: a processed message
\* posts one SEND_NOW, and a SEND_NOW or a tick transmits at most one
\* fragment.
C19_RateBound ==
    /\ Len(sent) <= ticks + Len(log)
    /\ Cardinality(SentBy("SEND_NOW")) <= Len(log)
    /\ Cardinality(SentBy("SEND_NOW")) + Pending("SEND_NOW") <= Len(log)
    /\ Cardinality(SentBy("TEN_SEC")) <= ticks

\* under load the bound is met: two messages processed and two ticks handled,
\* four fragments transmitted and more still queued
C19_Witness ==
    /\ Len(log) = 2
    /\ ticks = 2
    /\ Len(sent) = 4
    /\ outbound_queue # <<>>

\* C20: testbot's rcvd_command_count never exceeds rcvd_text_msg_count; a
\* packet that is no text message changes neither counter and is not
\* answered; a text packet adds exactly 1 to rcvd_text_msg_count and is
\* answered with a non-empty reply to its origin; rcvd_command_count grows by
\* at most 1 per packet, and only when the text has "test" or "counts" in it.
C20_TestbotCounters ==
    /\ [](rcvd_command_count <= rcvd_text_msg_count)
    /\ [][rx_count' = rx_count + 1 =>
            IF rx_msg'.portnum # "TEXT_MESSAGE_APP"
            THEN /\ rcvd_text_msg_count' = rcvd_text_msg_count
                 /\ rcvd_command_count' = rcvd_command_count
                 /\ tx_count' = tx_count
                 /\ tx_last' = tx_last
            ELSE /\ rcvd_text_msg_count' = rcvd_text_msg_count + 1
                 /\ tx_count' = tx_count + 1
                 /\ tx_last'.text # ""
                 /\ tx_last'.destinationId = rx_msg'.from
                 /\ rcvd_command_count' \in {rcvd_command_count, rcvd_command_count + 1}
                 /\ rcvd_command_count' = rcvd_command_count + 1 =>
                        \/ Contains("test", Lower(rx_msg'.text))
                        \/ Contains("counts", Lower(rx_msg'.text))]_vars

\* three packets: two text messages, one of them a command, both answered,
\* and then a packet that is no text message
C20_Witness ==
    /\ rx_count = 3
    /\ rx_msg.portnum = "POSITION_APP"
    /\ rcvd_text_msg_count = 2
    /\ rcvd_command_count = 1
    /\ tx_count = 2
====
